---- MODULE Spec2Model ----
(***************************************************************************)
(* The mapping engine of id-translation (id_translation.mapping.Mapper):   *)
(* score computation (overrides, filters, score function, heuristics) and  *)
(* cardinality-constrained matching, as described by                        *)
(* docs/documentation/mapping-primer.rst and the configuration reference.  *)
(***************************************************************************)
EXTENDS Integers, Sequences, FiniteSets, TLC

\* ------------------------------------------------------------------ bounds

\* Finite scores produced by a score function lie in 0..MaxScore.
MaxScore == 2

\* ------------------------------------------------------------ score values

\* score=inf: a forced match (override or short-circuit).
PosInf == MaxScore + 1

\* score=-inf: a forbidden match (other candidates of an override, filtered).
NegInf == 0 - PosInf

None == "None"

IsFinite(s) == s > NegInf /\ s < PosInf

Max2(a, b) == IF a >= b THEN a ELSE b

\* ------------------------------------------------------------------- names

ValueNames == {"v0", "v1"}

CandidateNames == {"c0", "c1"}

\* The dummy override target ('_'): a candidate that no source has.
Dummy == "_"

\* A call is made without a context (None) or for the context "src".
ContextNames == {None, "src"}

Range(s) == {s[k] : k \in DOMAIN s}

\* ------------------------------------------------------------ cardinality

OneToOne == "1:1"

OneToMany == "1:N"

ManyToOne == "N:1"

ManyToMany == "M:N"

CardinalityType == {OneToOne, OneToMany, ManyToOne, ManyToMany}

\* Mutant: candidates are exclusive under '1:N' only.
one_left_not_one_to_one(cardinality) == cardinality = OneToMany

\* Mutant: candidates are exclusive under '1:1' only.
one_left_not_one_to_many(cardinality) == cardinality = OneToOne

\* Mutant: candidates are exclusive under 'N:1' as well.
one_left_many_to_one(cardinality) == cardinality \in {OneToOne, OneToMany, ManyToOne}

\* '1:1' and '1:N': a candidate may be used by at most one value.
one_left(cardinality) == cardinality \in {OneToOne, OneToMany}

\* Mutant: 'M:N' requires a single candidate per value as well.
one_right_many_to_many(cardinality) == cardinality \in {OneToOne, ManyToOne, ManyToMany}

\* '1:1' and 'N:1': a value is mapped to a single candidate.
one_right(cardinality) == cardinality \in {OneToOne, ManyToOne}

ActionLevel == {"raise", "warn", "ignore"}

\* --------------------------------------------------------- state variables

VARIABLES
    cfg,          \* the Mapper's configuration, set once at construction
    call,         \* the arguments of the call in progress (or last made)
    pc,           \* "idle" | "scored" | "matching" | "matched" | "done"
    scores,       \* the score matrix: scores[i][j] for values[i], candidates[j]
    idx,          \* matching: index of the next value to resolve
    consumed,     \* matching: candidates already owned by a value
    assignment,   \* matching: value index -> set of matched candidates
    error,        \* None, or the exception the call raised
    warned,       \* whether an unmapped-values warning was emitted
    verbose_logging,  \* Mapper.verbose_logging, set at construction
    VERBOSE,      \* the process-wide flag that enables verbose messages
    thread        \* the calls made by concurrent worker threads

\* The state of the worker threads and of the verbose flag they share.
conc_vars == <<verbose_logging, VERBOSE, thread>>

\* The state of a call made by the main thread.
call_vars == <<call, pc, scores, idx, consumed, assignment, error, warned>>

vars == <<cfg, call_vars, conc_vars>>

\* ------------------------------------------------------------- overrides

\* InheritedKeysDict: context-specific keys shadow the shared (default) keys.
InheritedKeysDict_get(overrides, context, key) ==
    IF context # None /\ overrides.specific[key] # None
    THEN overrides.specific[key]
    ELSE overrides.default[key]

\* Mutant: static overrides shadow the runtime override.
get_override_static_first(value, context, override_function) ==
    IF InheritedKeysDict_get(cfg.overrides, context, value) # None
    THEN InheritedKeysDict_get(cfg.overrides, context, value)
    ELSE override_function[value]

\* Runtime overrides take precedence over static overrides.
get_override(value, context, override_function) ==
    IF override_function[value] # None
    THEN override_function[value]
    ELSE InheritedKeysDict_get(cfg.overrides, context, value)

\* Mutant: only the chosen candidate's cell is set.
override_row_chosen_only(candidates, chosen) ==
    [j \in 1..Len(candidates) |-> IF candidates[j] = chosen THEN PosInf ELSE 0]

\* score=inf for the chosen candidate, score=-inf for the others.
override_row(candidates, chosen) ==
    [j \in 1..Len(candidates) |-> IF candidates[j] = chosen THEN PosInf ELSE NegInf]

\* --------------------------------------------------------------- filters

\* A FilterFunction returns the subset of candidates to keep for the value.
apply_filter(filter, value, candidates) == filter.keep[value] \cap candidates

\* Mutant: a candidate is kept if some filter function keeps it.
filter_candidates_any(value, candidates) ==
    {c \in candidates :
        \/ cfg.filter_functions = <<>>
        \/ \E k \in 1..Len(cfg.filter_functions) :
              c \in apply_filter(cfg.filter_functions[k], value, candidates)}

\* Candidates that every filter function keeps.
filter_candidates(value, candidates) ==
    {c \in candidates :
        \A k \in 1..Len(cfg.filter_functions) :
            c \in apply_filter(cfg.filter_functions[k], value, candidates)}

\* ----------------------------------------------------------- score function

\* ScoreFunction(value, candidates, context): one score per candidate. The
\* 'disabled' function in non-strict mode rejects every candidate; in strict
\* mode it raises, see ScoringDisabledError.
score_function(value, candidates) ==
    [j \in 1..Len(candidates) |->
        IF cfg.disabled THEN NegInf ELSE cfg.score_function[<<value, candidates[j]>>]]

\* ------------------------------------------------------------- heuristics

\* The candidates returned by the first short-circuiting function that
\* returns any, {} if none does.
RECURSIVE short_circuit(_, _, _)
short_circuit(k, value, candidates) ==
    IF k > Len(cfg.heuristics) THEN {}
    ELSE LET h == cfg.heuristics[k]
             res == IF h.kind = "short_circuit"
                    THEN apply_filter(h, value, Range(candidates))
                    ELSE {}
         IN IF res # {} THEN res ELSE short_circuit(k + 1, value, candidates)

\* An AliasFunction rewrites (value, candidates) before scoring.
apply_alias(h, value, candidates) ==
    [value |-> h.value_map[value],
     candidates |-> [j \in 1..Len(candidates) |-> h.cand_map[candidates[j]]]]

\* Mutant: the scores of the last alias replace the best scores.
RECURSIVE alias_best_last(_, _, _, _)
alias_best_last(k, h_value, h_candidates, best) ==
    IF k > Len(cfg.heuristics) THEN best
    ELSE LET h == cfg.heuristics[k]
         IN IF h.kind # "alias"
            THEN alias_best_last(k + 1, h_value, h_candidates, best)
            ELSE LET res == apply_alias(h, h_value, h_candidates)
                     heuristic_scores == score_function(res.value, res.candidates)
                 IN IF h.mutate
                    THEN alias_best_last(k + 1, res.value, res.candidates, heuristic_scores)
                    ELSE alias_best_last(k + 1, h_value, h_candidates, heuristic_scores)

\* Heuristics are applied in the order given; the best score seen for each
\* position is kept. With mutate, the changes made by an alias are kept for
\* the heuristics that follow it.
RECURSIVE alias_best(_, _, _, _)
alias_best(k, h_value, h_candidates, best) ==
    IF k > Len(cfg.heuristics) THEN best
    ELSE LET h == cfg.heuristics[k]
         IN IF h.kind # "alias"
            THEN alias_best(k + 1, h_value, h_candidates, best)
            ELSE LET res == apply_alias(h, h_value, h_candidates)
                     heuristic_scores == score_function(res.value, res.candidates)
                     new_best == [j \in DOMAIN best |-> Max2(best[j], heuristic_scores[j])]
                 IN IF h.mutate
                    THEN alias_best(k + 1, res.value, res.candidates, new_best)
                    ELSE alias_best(k + 1, h_value, h_candidates, new_best)

\* Mutant: a short-circuit forces the candidates it returns; the other
\* candidates keep their scores.
HeuristicScore_keeps_others(value, candidates) ==
    LET sc == short_circuit(1, value, candidates)
        best == alias_best(1, value, candidates, score_function(value, candidates))
    IN [j \in 1..Len(candidates) |-> IF candidates[j] \in sc THEN PosInf ELSE best[j]]

\* HeuristicScore: the score function wrapped by its heuristics.
HeuristicScore(value, candidates) ==
    LET sc == short_circuit(1, value, candidates)
    IN IF sc # {}
       THEN [j \in 1..Len(candidates) |-> IF candidates[j] \in sc THEN PosInf ELSE NegInf]
       ELSE alias_best(1, value, candidates, score_function(value, candidates))

\* ---------------------------------------------------------- compute_scores

IndexOf(seq, x) == CHOOSE k \in 1..Len(seq) : seq[k] = x

\* Override-only mode: a value that is a candidate itself is matched to it
\* as if 'value = "value"' were an override.
identity_match(value, candidates) == cfg.disabled /\ value \in Range(candidates)

\* Mutant: an identity match is made before the overrides are looked up.
score_row_identity_first(value, candidates, context, override_function) ==
    LET chosen == get_override(value, context, override_function)
    IN IF identity_match(value, candidates)
       THEN override_row(candidates, value)
       ELSE IF chosen # None
       THEN override_row(candidates, chosen)
       ELSE LET kept == filter_candidates(value, Range(candidates))
                kept_seq == SelectSeq(candidates, LAMBDA c : c \in kept)
                computed == HeuristicScore(value, kept_seq)
            IN [j \in 1..Len(candidates) |->
                   IF candidates[j] \in kept
                   THEN computed[IndexOf(kept_seq, candidates[j])]
                   ELSE NegInf]

\* Mutant: the scores are computed for all candidates; filters are ignored.
score_row_unfiltered(value, candidates, context, override_function) ==
    LET chosen == get_override(value, context, override_function)
    IN IF chosen # None
       THEN override_row(candidates, chosen)
       ELSE HeuristicScore(value, candidates)

\* One row of the score matrix: overrides, then filters, then scores.
score_row(value, candidates, context, override_function) ==
    LET chosen == get_override(value, context, override_function)
    IN IF chosen # None
       THEN override_row(candidates, chosen)
       ELSE IF identity_match(value, candidates)
       THEN override_row(candidates, value)
       ELSE LET kept == filter_candidates(value, Range(candidates))
                kept_seq == SelectSeq(candidates, LAMBDA c : c \in kept)
                computed == HeuristicScore(value, kept_seq)
            IN [j \in 1..Len(candidates) |->
                   IF candidates[j] \in kept
                   THEN computed[IndexOf(kept_seq, candidates[j])]
                   ELSE NegInf]

\* Mutant: the score function is called unless the value has an override.
score_function_called_without_override(value, candidates, context, override_function) ==
    get_override(value, context, override_function) = None

\* Mutant: the score function is called even if no candidate is left.
score_function_called_on_empty(value, candidates, context, override_function) ==
    /\ get_override(value, context, override_function) = None
    /\ ~identity_match(value, candidates)
    /\ short_circuit(1, value, candidates) = {}

\* The score function is called for the value: it is resolved neither by an
\* override or its identity, nor by the filters, nor by a short-circuit.
score_function_called(value, candidates, context, override_function) ==
    LET kept == filter_candidates(value, Range(candidates))
        kept_seq == SelectSeq(candidates, LAMBDA c : c \in kept)
    IN /\ get_override(value, context, override_function) = None
       /\ ~identity_match(value, candidates)
       /\ kept # {}
       /\ short_circuit(1, value, kept_seq) = {}

\* The 'disabled' score function raises when called in strict mode.
ScoringDisabledError(values, candidates, context, override_function) ==
    /\ cfg.disabled
    /\ cfg.strict
    /\ \E i \in 1..Len(values) :
          score_function_called(values[i], candidates, context, override_function)

\* Mutant: the candidate an override names is -infinity for the other values.
compute_scores_exclusive_overrides(values, candidates, context, override_function) ==
    [i \in 1..Len(values) |->
        [j \in 1..Len(candidates) |->
            IF \E k \in 1..Len(values) :
                   /\ k # i
                   /\ get_override(values[k], context, override_function) = candidates[j]
            THEN NegInf
            ELSE score_row(values[i], candidates, context, override_function)[j]]]

\* Mapper.compute_scores: values make up the index, candidates the columns.
compute_scores(values, candidates, context, override_function) ==
    [i \in 1..Len(values) |->
        score_row(values[i], candidates, context, override_function)]

\* ------------------------------------------------- to_directional_mapping

\* Mutant: a candidate is taken from its owner by a value that scores it
\* strictly higher.
viable_reoptimizing(i) ==
    {j \in 1..Len(call.candidates) :
        /\ scores[i][j] >= cfg.min_score
        /\ one_left(call.cardinality) =>
              \A k \in 1..(i - 1) :
                  call.candidates[j] \in assignment[k] => scores[k][j] < scores[i][j]}

\* Mutant: a score equal to min_score is below the threshold.
viable_strictly_above(i) ==
    {j \in 1..Len(call.candidates) :
        /\ scores[i][j] > cfg.min_score
        /\ one_left(call.cardinality) => call.candidates[j] \notin consumed}

\* Mutant: every cell that is not -infinity is viable, whatever min_score is.
viable_any_finite(i) ==
    {j \in 1..Len(call.candidates) :
        /\ scores[i][j] > NegInf
        /\ one_left(call.cardinality) => call.candidates[j] \notin consumed}

\* Candidates the value at index i may still be matched to: the score is at
\* or above min_score and, where candidates are exclusive, nobody owns it.
viable(i) ==
    {j \in 1..Len(call.candidates) :
        /\ scores[i][j] >= cfg.min_score
        /\ one_left(call.cardinality) => call.candidates[j] \notin consumed}

best_score(i) == CHOOSE s \in {scores[i][j] : j \in viable(i)} :
                    \A j \in viable(i) : scores[i][j] <= s

\* Mutant: of the candidates that share the best score, the first is taken.
best_candidates_first(i) ==
    {j \in viable(i) :
        /\ scores[i][j] = best_score(i)
        /\ \A k \in viable(i) : scores[i][k] = best_score(i) => j <= k}

\* The viable candidates that share the best score of the value.
best_candidates(i) == {j \in viable(i) : scores[i][j] = best_score(i)}

\* Mutant: ties are detected under '1:1' only.
is_ambiguous_one_to_one_only(i) ==
    /\ call.cardinality = OneToOne
    /\ viable(i) # {}
    /\ Cardinality(best_candidates(i)) > 1

\* Mutant: a tie is an error only if on_unmapped='raise'.
is_ambiguous_if_raise(i) ==
    /\ cfg.on_unmapped = "raise"
    /\ one_right(call.cardinality)
    /\ viable(i) # {}
    /\ Cardinality(best_candidates(i)) > 1

\* Mutant: any two viable candidates with equal scores are ambiguous.
is_ambiguous_any_tie(i) ==
    /\ one_right(call.cardinality)
    /\ \E j, k \in viable(i) : j # k /\ scores[i][j] = scores[i][k]

\* A single candidate is required but several share the best score.
is_ambiguous(i) ==
    /\ one_right(call.cardinality)
    /\ viable(i) # {}
    /\ Cardinality(best_candidates(i)) > 1

\* The candidates the value at index i is matched to.
accepted(i) ==
    LET chosen == IF viable(i) = {} THEN {}
                  ELSE IF one_right(call.cardinality) THEN best_candidates(i)
                  ELSE viable(i)
    IN {call.candidates[j] : j \in chosen}

\* Mutant: only the values without any score at or above min_score are
\* reported as unmapped.
unmapped_values_without_score ==
    {i \in 1..Len(call.values) :
        \A j \in 1..Len(call.candidates) : scores[i][j] < cfg.min_score}

\* The values left without a match, by position in the values list.
unmapped_values == {i \in 1..Len(call.values) : assignment[i] = {}}

\* ------------------------------------------------------------ configuration

NoOverrides == [v \in ValueNames |-> None]

Override(value, candidate) == [NoOverrides EXCEPT ![value] = candidate]

ScoreFunctions == [ValueNames \X CandidateNames -> 0..MaxScore]

\* Score functions that only tell a match (MaxScore) from a mismatch (0).
EqualityLikeScoreFunctions == [ValueNames \X CandidateNames -> {0, MaxScore}]

KeepAll == [v \in ValueNames |-> CandidateNames \cup ValueNames]

Identity(S) == [x \in S |-> x]

FilterFunction(keep) ==
    [kind |-> "filter", keep |-> keep, value_map |-> Identity(ValueNames),
     cand_map |-> Identity(CandidateNames \cup ValueNames), mutate |-> FALSE]

ShortCircuit(keep) ==
    [kind |-> "short_circuit", keep |-> keep, value_map |-> Identity(ValueNames),
     cand_map |-> Identity(CandidateNames \cup ValueNames), mutate |-> FALSE]

AliasFunction(value_map, cand_map, mutate) ==
    [kind |-> "alias", keep |-> KeepAll, value_map |-> value_map,
     cand_map |-> cand_map, mutate |-> mutate]

\* Refuse v1 -> c0.
filter_v1 == FilterFunction([KeepAll EXCEPT !["v1"] = {"c1"}])

\* Refuse v0 -> c0.
filter_v0 == FilterFunction([KeepAll EXCEPT !["v0"] = {"c1"}])

\* Refuse v0 -> c1.
filter_v0_c1 == FilterFunction([KeepAll EXCEPT !["v0"] = {"c0"}])

\* Forces v0 -> c1; returns nothing for other values.
force_v0 == ShortCircuit([v \in ValueNames |-> IF v = "v0" THEN {"c1"} ELSE {}])

\* Forces v0 -> c0; returns nothing for other values.
force_v0_c0 == ShortCircuit([v \in ValueNames |-> IF v = "v0" THEN {"c0"} ELSE {}])

\* Every value is scored as if it were named v1.
value_alias(mutate) ==
    AliasFunction([v \in ValueNames |-> "v1"], Identity(CandidateNames \cup ValueNames), mutate)

\* Candidates are scored under each other's name.
candidate_alias(mutate) ==
    AliasFunction(Identity(ValueNames),
                  [c \in CandidateNames |-> IF c = "c0" THEN "c1" ELSE "c0"], mutate)

FilterLists == {<<>>, <<filter_v1>>, <<filter_v1, filter_v0>>, <<filter_v0_c1>>}

HeuristicLists ==
    {<<>>, <<value_alias(FALSE)>>, <<force_v0>>,
     <<value_alias(TRUE), candidate_alias(FALSE)>>,
     <<candidate_alias(FALSE), force_v0>>,
     <<force_v0, force_v0_c0>>}

StaticOverrides ==
    [default : {NoOverrides, Override("v0", "c0"), Override("v1", "c1")},
     specific : {NoOverrides, Override("v0", "c1"), Override("v0", Dummy)}]

\* Mappers whose scores come from the score function alone.
PlainMappers ==
    [score_function : ScoreFunctions,
     overrides : {[default |-> NoOverrides, specific |-> NoOverrides]},
     filter_functions : {<<>>},
     heuristics : {<<>>},
     cardinality : CardinalityType,
     min_score : 1..MaxScore,
     on_unmapped : ActionLevel,
     disabled : {FALSE},
     strict : {TRUE}]

\* Mappers with static overrides, filters and heuristics.
ConfiguredMappers ==
    [score_function : EqualityLikeScoreFunctions,
     overrides : StaticOverrides,
     filter_functions : FilterLists,
     heuristics : HeuristicLists,
     cardinality : {ManyToOne},
     min_score : {MaxScore},
     on_unmapped : {"ignore"},
     disabled : {FALSE},
     strict : {TRUE}]

\* Mappers with score_function='disabled' (override-only mode).
OverrideOnlyMappers ==
    [score_function : {[p \in ValueNames \X CandidateNames |-> 0]},
     overrides : StaticOverrides,
     filter_functions : {<<>>, <<filter_v1>>},
     heuristics : {<<>>, <<force_v0>>, <<value_alias(FALSE)>>},
     cardinality : {ManyToOne},
     min_score : {MaxScore},
     on_unmapped : {"raise", "ignore"},
     disabled : {TRUE},
     strict : BOOLEAN]

\* Runtime overrides (UserOverrideFunction) given with a call.
OverrideFunctions ==
    {NoOverrides, Override("v0", "c0"), Override("v0", "c1"), Override("v1", "c0")}

ValueLists == {<<"v0", "v1">>}

CandidateLists == {<<"c0", "c1">>}

\* Candidate lists in which the value v0 is a candidate itself.
IdentityCandidateLists == {<<"c0", "v0">>}

\* The candidate lists a mapper is called with. Only the 'disabled' score
\* function can be given the candidates of IdentityCandidateLists.
CandidateListsOf(mapper) ==
    IF mapper.disabled THEN CandidateLists \cup IdentityCandidateLists
    ELSE CandidateLists

NoCall ==
    [op |-> None, values |-> <<>>, candidates |-> <<>>, context |-> None,
     override_function |-> NoOverrides, cardinality |-> None]

\* Worker threads that call the same Mapper.
Threads == {"t1", "t2"}

\* A worker thread that has not called the Mapper.
IdleThread ==
    [pc |-> "idle", context |-> None, override_function |-> NoOverrides,
     before |-> FALSE, scores |-> <<>>, logged |-> FALSE]

\* Mappers that the worker threads share.
SharedMappers ==
    {m \in ConfiguredMappers :
        /\ m.score_function = [p \in ValueNames \X CandidateNames |->
                                  IF p = <<"v1", "c1">> THEN MaxScore ELSE 0]
        /\ m.filter_functions = <<filter_v1>>
        /\ m.heuristics = <<>>}

\* ------------------------------------------------------------------ actions

Init ==
    /\ cfg \in PlainMappers \cup ConfiguredMappers \cup OverrideOnlyMappers
    /\ call = NoCall
    /\ pc = "idle"
    /\ scores = <<>>
    /\ idx = 0
    /\ consumed = {}
    /\ assignment = <<>>
    /\ error = None
    /\ warned = FALSE
    /\ verbose_logging = FALSE
    /\ VERBOSE = FALSE
    /\ thread = [t \in Threads |-> IdleThread]

Ready == pc \in {"idle", "scored", "done"}

\* Mapper.compute_scores(values, candidates, context, override_function).
ComputeScores(values, candidates, context, override_function) ==
    /\ Ready
    /\ call' = [op |-> "compute_scores", values |-> values, candidates |-> candidates,
                context |-> context, override_function |-> override_function,
                cardinality |-> None]
    /\ IF ScoringDisabledError(values, candidates, context, override_function)
       THEN /\ error' = "ScoringDisabledError"
            /\ scores' = <<>>
            /\ pc' = "done"
       ELSE /\ error' = None
            /\ scores' = compute_scores(values, candidates, context, override_function)
            /\ pc' = "scored"
    /\ idx' = 0
    /\ consumed' = {}
    /\ assignment' = <<>>
    /\ warned' = FALSE
    /\ UNCHANGED <<cfg, conc_vars>>

\* Mutant: apply matches under '1:1', whatever the configured cardinality.
Apply_one_to_one(values, candidates, context, override_function) ==
    /\ Ready
    /\ call' = [op |-> "apply", values |-> values, candidates |-> candidates,
                context |-> context, override_function |-> override_function,
                cardinality |-> OneToOne]
    /\ IF ScoringDisabledError(values, candidates, context, override_function)
       THEN /\ error' = "ScoringDisabledError"
            /\ scores' = <<>>
            /\ pc' = "done"
            /\ idx' = 0
       ELSE /\ error' = None
            /\ scores' = compute_scores(values, candidates, context, override_function)
            /\ pc' = "matching"
            /\ idx' = 1
    /\ consumed' = {}
    /\ assignment' = [i \in 1..Len(values) |-> {}]
    /\ warned' = FALSE
    /\ UNCHANGED <<cfg, conc_vars>>

\* Mutant: the candidates taken during an earlier call stay taken.
Apply_keeps_consumed(values, candidates, context, override_function) ==
    /\ Ready
    /\ call' = [op |-> "apply", values |-> values, candidates |-> candidates,
                context |-> context, override_function |-> override_function,
                cardinality |-> cfg.cardinality]
    /\ IF ScoringDisabledError(values, candidates, context, override_function)
       THEN /\ error' = "ScoringDisabledError"
            /\ scores' = <<>>
            /\ pc' = "done"
            /\ idx' = 0
       ELSE /\ error' = None
            /\ scores' = compute_scores(values, candidates, context, override_function)
            /\ pc' = "matching"
            /\ idx' = 1
    /\ assignment' = [i \in 1..Len(values) |-> {}]
    /\ warned' = FALSE
    /\ UNCHANGED <<cfg, consumed, conc_vars>>

\* Mapper.apply(values, candidates, context, override_function): computes the
\* scores, then starts matching them under the configured cardinality.
Apply(values, candidates, context, override_function) ==
    /\ Ready
    /\ call' = [op |-> "apply", values |-> values, candidates |-> candidates,
                context |-> context, override_function |-> override_function,
                cardinality |-> cfg.cardinality]
    /\ IF ScoringDisabledError(values, candidates, context, override_function)
       THEN /\ error' = "ScoringDisabledError"
            /\ scores' = <<>>
            /\ pc' = "done"
            /\ idx' = 0
       ELSE /\ error' = None
            /\ scores' = compute_scores(values, candidates, context, override_function)
            /\ pc' = "matching"
            /\ idx' = 1
    /\ consumed' = {}
    /\ assignment' = [i \in 1..Len(values) |-> {}]
    /\ warned' = FALSE
    /\ UNCHANGED <<cfg, conc_vars>>

\* Mapper.to_directional_mapping(scores): matches precomputed scores.
ToDirectionalMapping ==
    /\ pc = "scored"
    /\ call' = [call EXCEPT !.op = "to_directional_mapping",
                            !.cardinality = cfg.cardinality]
    /\ pc' = "matching"
    /\ idx' = 1
    /\ consumed' = {}
    /\ assignment' = [i \in 1..Len(call.values) |-> {}]
    /\ error' = None
    /\ warned' = FALSE
    /\ UNCHANGED <<cfg, scores, conc_vars>>

\* The value at index idx is resolved: values are taken in the order given.
MatchValue ==
    /\ pc = "matching"
    /\ idx <= Len(call.values)
    /\ IF is_ambiguous(idx)
       THEN /\ error' = "AmbiguousScoreError"
            /\ pc' = "done"
            /\ UNCHANGED <<idx, consumed, assignment>>
       ELSE /\ assignment' = [assignment EXCEPT ![idx] = accepted(idx)]
            /\ consumed' = IF one_left(call.cardinality)
                           THEN consumed \cup accepted(idx)
                           ELSE consumed
            /\ idx' = idx + 1
            /\ UNCHANGED <<error, pc>>
    /\ UNCHANGED <<cfg, call, scores, warned, conc_vars>>

\* Mutant: on_unmapped='warn' raises like 'raise'.
Return_warn_raises ==
    /\ pc = "matching"
    /\ idx > Len(call.values)
    /\ pc' = "done"
    /\ IF call.op = "apply" /\ unmapped_values # {}
       THEN /\ error' = IF cfg.on_unmapped # "ignore" THEN "UnmappedValuesError" ELSE None
            /\ warned' = (cfg.on_unmapped = "warn")
       ELSE UNCHANGED <<error, warned>>
    /\ UNCHANGED <<cfg, call, scores, idx, consumed, assignment, conc_vars>>

\* All values are resolved. Mapper.apply handles the values left without a
\* match as on_unmapped says; to_directional_mapping returns as is.
Return ==
    /\ pc = "matching"
    /\ idx > Len(call.values)
    /\ pc' = "done"
    /\ IF call.op = "apply" /\ unmapped_values # {}
       THEN /\ error' = IF cfg.on_unmapped = "raise" THEN "UnmappedValuesError" ELSE None
            /\ warned' = (cfg.on_unmapped = "warn")
       ELSE UNCHANGED <<error, warned>>
    /\ UNCHANGED <<cfg, call, scores, idx, consumed, assignment, conc_vars>>

Next ==
    \/ \E values \in ValueLists, candidates \in CandidateListsOf(cfg),
          context \in ContextNames, override_function \in OverrideFunctions :
            \/ ComputeScores(values, candidates, context, override_function)
            \/ Apply(values, candidates, context, override_function)
    \/ ToDirectionalMapping
    \/ MatchValue
    \/ Return

Spec == Init /\ [][Next]_vars

\* ---------------------------------------------------- empty candidate lists

\* Mappers that are called without candidates.
EdgeMappers ==
    {m \in PlainMappers : m.score_function \in EqualityLikeScoreFunctions}
        \cup {m \in ConfiguredMappers :
                 m.score_function = [p \in ValueNames \X CandidateNames |-> MaxScore]}
        \cup OverrideOnlyMappers

\* Lists of any number of values.
EdgeValueLists == {<<>>, <<"v1">>, <<"v0", "v1">>}

EdgeInit ==
    /\ cfg \in EdgeMappers
    /\ call = NoCall
    /\ pc = "idle"
    /\ scores = <<>>
    /\ idx = 0
    /\ consumed = {}
    /\ assignment = <<>>
    /\ error = None
    /\ warned = FALSE
    /\ verbose_logging = FALSE
    /\ VERBOSE = FALSE
    /\ thread = [t \in Threads |-> IdleThread]

EdgeNext ==
    \/ \E values \in EdgeValueLists, context \in ContextNames,
          override_function \in {NoOverrides, Override("v0", "c0")} :
            \/ ComputeScores(values, <<>>, context, override_function)
            \/ Apply(values, <<>>, context, override_function)
    \/ ToDirectionalMapping
    \/ MatchValue
    \/ Return

\* A Mapper that is given values but no candidates.
EdgeSpec == EdgeInit /\ [][EdgeNext]_vars

\* ------------------------------------------------- matching given scores

\* Mappers that match scores which the caller computed beforehand.
MatcherMappers ==
    {m \in PlainMappers :
        /\ m.score_function = [p \in ValueNames \X CandidateNames |-> 0]
        /\ m.on_unmapped = "ignore"}

\* The cells of a score matrix: forbidden, finite, forced.
MatrixScores == {NegInf, MaxScore - 1, MaxScore, PosInf}

MatcherValueLists == {<<"v0">>, <<"v0", "v1">>}

MatcherCandidateLists == {<<"c0", "c1">>, <<"c0", "c1", "c2">>}

\* Every score matrix of the values and the candidates.
ScoreMatrices(values, candidates) ==
    [1..Len(values) -> [1..Len(candidates) -> MatrixScores]]

\* The scores have been computed; the caller holds the matrix.
MatcherInit ==
    /\ cfg \in MatcherMappers
    /\ \E values \in MatcherValueLists, candidates \in MatcherCandidateLists :
          /\ call = [NoCall EXCEPT !.op = "compute_scores", !.values = values,
                                   !.candidates = candidates]
          /\ scores \in ScoreMatrices(values, candidates)
    /\ pc = "scored"
    /\ idx = 0
    /\ consumed = {}
    /\ assignment = <<>>
    /\ error = None
    /\ warned = FALSE
    /\ verbose_logging = FALSE
    /\ VERBOSE = FALSE
    /\ thread = [t \in Threads |-> IdleThread]

MatcherNext ==
    \/ ToDirectionalMapping
    \/ MatchValue
    \/ Return

\* Mapper.to_directional_mapping for any score matrix.
MatcherSpec == MatcherInit /\ [][MatcherNext]_vars

\* ------------------------------------------------------- concurrent calls

\* A Mapper shared by worker threads; the main thread makes no call.
ConcurrentInit ==
    /\ cfg \in SharedMappers
    /\ call = NoCall
    /\ pc = "idle"
    /\ scores = <<>>
    /\ idx = 0
    /\ consumed = {}
    /\ assignment = <<>>
    /\ error = None
    /\ warned = FALSE
    /\ verbose_logging \in BOOLEAN
    /\ VERBOSE = FALSE
    /\ thread = [t \in Threads |-> IdleThread]

\* Thread t calls Mapper.compute_scores. With verbose_logging the call runs
\* in the enable_verbose_debug_messages context, which first saves the flag.
ThreadCall(t, context, override_function) ==
    /\ thread[t].pc = "idle"
    /\ thread' = [thread EXCEPT ![t] =
                     [@ EXCEPT !.pc = IF verbose_logging THEN "enable" ELSE "body",
                               !.context = context,
                               !.override_function = override_function,
                               !.before = IF verbose_logging THEN VERBOSE ELSE FALSE]]
    /\ UNCHANGED <<cfg, call_vars, verbose_logging, VERBOSE>>

\* Mutant: the flag is cleared on entry.
enable_verbose_debug_messages_clears(t) ==
    /\ thread[t].pc = "enable"
    /\ VERBOSE' = FALSE
    /\ thread' = [thread EXCEPT ![t].pc = "body"]
    /\ UNCHANGED <<cfg, call_vars, verbose_logging>>

\* enable_verbose_debug_messages, on entry: the flag is set.
enable_verbose_debug_messages(t) ==
    /\ thread[t].pc = "enable"
    /\ VERBOSE' = TRUE
    /\ thread' = [thread EXCEPT ![t].pc = "body"]
    /\ UNCHANGED <<cfg, call_vars, verbose_logging>>

\* The body of the call: the scores are computed; verbose messages are
\* emitted if the flag is set at the time.
ThreadComputeScores(t) ==
    /\ thread[t].pc = "body"
    /\ thread' = [thread EXCEPT ![t] =
                     [@ EXCEPT !.pc = IF verbose_logging THEN "restore" ELSE "done",
                               !.scores = compute_scores(<<"v0", "v1">>, <<"c0", "c1">>,
                                                         thread[t].context,
                                                         thread[t].override_function),
                               !.logged = VERBOSE]]
    /\ UNCHANGED <<cfg, call_vars, verbose_logging, VERBOSE>>

\* enable_verbose_debug_messages, on exit: the saved flag is restored.
ThreadReturn(t) ==
    /\ thread[t].pc = "restore"
    /\ VERBOSE' = thread[t].before
    /\ thread' = [thread EXCEPT ![t].pc = "done"]
    /\ UNCHANGED <<cfg, call_vars, verbose_logging>>

ConcurrentNext ==
    \E t \in Threads :
        \/ \E context \in ContextNames, override_function \in OverrideFunctions :
              ThreadCall(t, context, override_function)
        \/ enable_verbose_debug_messages(t)
        \/ ThreadComputeScores(t)
        \/ ThreadReturn(t)

\* Worker threads calling one Mapper, interleaved in any way.
ConcurrentSpec == ConcurrentInit /\ [][ConcurrentNext]_vars

\* ------------------------------------------------------------------ claims

\* A score matrix for the arguments in call has been computed.
HasScores == pc # "idle" /\ error # "ScoringDisabledError"

\* A matching (apply or to_directional_mapping) has returned an assignment.
Returned == pc = "done" /\ error = None

RowOf(i) == scores[i]

ValueAt(i) == call.values[i]

CandidateIndices == 1..Len(call.candidates)

ValueIndices == 1..Len(call.values)

\* The three override levels of the value at index i, highest first.
RuntimeOverride(i) == call.override_function[ValueAt(i)]

ContextOverride(i) ==
    IF call.context = None THEN None ELSE cfg.overrides.specific[ValueAt(i)]

GlobalOverride(i) == cfg.overrides.default[ValueAt(i)]

\* The override that applies to the value: that of the highest level that
\* has one.
ApplicableOverride(i) ==
    IF RuntimeOverride(i) # None THEN RuntimeOverride(i)
    ELSE IF ContextOverride(i) # None THEN ContextOverride(i)
    ELSE GlobalOverride(i)

\* C1: for every value whose applicable override (runtime or static) names a
\* candidate c of the candidate list, the matrix of compute_scores holds
\* +infinity in cell (v, c) and -infinity in every other cell of the row.
C1_OverrideRow ==
    HasScores =>
        \A i \in ValueIndices :
            ApplicableOverride(i) \in Range(call.candidates) =>
                \A j \in CandidateIndices :
                    RowOf(i)[j] = IF call.candidates[j] = ApplicableOverride(i)
                                  THEN PosInf ELSE NegInf

\* C1 witness: a static override names a candidate that a filter function
\* refuses for the value; the row is the override's all the same.
C1_Witness ==
    /\ pc = "scored"
    /\ \E i \in ValueIndices :
        /\ RuntimeOverride(i) = None
        /\ ApplicableOverride(i) \in Range(call.candidates)
        /\ ApplicableOverride(i) \notin filter_candidates(ValueAt(i), Range(call.candidates))
        /\ \E j \in CandidateIndices : RowOf(i)[j] = PosInf

ForcedCandidates(i) == {call.candidates[j] : j \in {k \in CandidateIndices : RowOf(i)[k] = PosInf}}

\* C2: override precedence is runtime > context-scoped static > global
\* static. The +infinity cell of an overridden value is the one named by the
\* highest level that yields a candidate; a lower level is used only when
\* every level above it yields none.
C2_OverridePrecedence ==
    HasScores =>
        \A i \in ValueIndices :
            /\ RuntimeOverride(i) # None =>
                    ForcedCandidates(i) = {RuntimeOverride(i)} \cap Range(call.candidates)
            /\ (RuntimeOverride(i) = None /\ ContextOverride(i) # None) =>
                    ForcedCandidates(i) = {ContextOverride(i)} \cap Range(call.candidates)
            /\ (RuntimeOverride(i) = None /\ ContextOverride(i) = None
                    /\ GlobalOverride(i) # None) =>
                    ForcedCandidates(i) = {GlobalOverride(i)} \cap Range(call.candidates)

\* C2 witness: all three levels name a candidate for the same value, and the
\* runtime override disagrees with the context-scoped one.
C2_Witness ==
    /\ pc = "scored"
    /\ \E i \in ValueIndices :
        /\ RuntimeOverride(i) # None
        /\ ContextOverride(i) # None
        /\ GlobalOverride(i) # None
        /\ RuntimeOverride(i) # ContextOverride(i)
        /\ ContextOverride(i) # GlobalOverride(i)
        /\ ForcedCandidates(i) = {RuntimeOverride(i)}

\* C3: under OneToOne, every assignment returned by apply or
\* to_directional_mapping matches each value to at most one candidate and
\* each candidate to at most one value.
C3_OneToOne ==
    (Returned /\ call.cardinality = OneToOne) =>
        /\ \A i \in ValueIndices : Cardinality(assignment[i]) <= 1
        /\ \A i, k \in ValueIndices : i # k => assignment[i] \cap assignment[k] = {}

\* C3 witness: both values are matched, and the second value scores the
\* candidate of the first at least as high as its own.
C3_Witness ==
    /\ Returned
    /\ call.cardinality = OneToOne
    /\ Len(call.values) = 2
    /\ assignment[1] # {}
    /\ assignment[2] # {}
    /\ \E j, k \in CandidateIndices :
        /\ call.candidates[j] \in assignment[1]
        /\ call.candidates[k] \in assignment[2]
        /\ IsFinite(RowOf(2)[j])
        /\ RowOf(2)[j] >= RowOf(2)[k]

\* Candidates owned by the values before index i.
OwnedBefore(i) == UNION {assignment[k] : k \in 1..(i - 1)}

\* Candidates still available to the value at index i: at or above
\* min_score and, where candidates are exclusive, not claimed earlier.
StillAvailable(i) ==
    {j \in CandidateIndices :
        /\ RowOf(i)[j] >= cfg.min_score
        /\ call.cardinality \in {OneToOne, OneToMany} =>
              call.candidates[j] \notin OwnedBefore(i)}

\* Two or more still-available candidates share the value's best finite score.
BestTied(i) ==
    \E j1, j2 \in StillAvailable(i) :
        /\ j1 # j2
        /\ RowOf(i)[j1] = RowOf(i)[j2]
        /\ IsFinite(RowOf(i)[j1])
        /\ \A j \in StillAvailable(i) : RowOf(i)[j] <= RowOf(i)[j1]

Resolving == pc = "matching" /\ idx <= Len(call.values)

RaisesAmbiguous ==
    pc' = "done" /\ error' = "AmbiguousScoreError" /\ assignment' = assignment

C5_NoBacktracking ==
    /\ []((pc = "matching" /\ one_left(call.cardinality)) =>
            /\ consumed = OwnedBefore(idx)
            /\ \A k \in ValueIndices : k >= idx => assignment[k] = {})
    /\ [][(pc = "matching" /\ one_left(call.cardinality)) =>
            /\ idx' \in {idx, idx + 1}
            /\ consumed \subseteq consumed'
            /\ \A k \in ValueIndices : k # idx => assignment'[k] = assignment[k]
            /\ idx <= Len(call.values) => assignment'[idx] \cap consumed = {}]_vars

\* C5 witness: the first value owns a candidate that the second value, left
\* unmatched, scores strictly higher.
C5_Witness ==
    /\ Returned
    /\ one_left(call.cardinality)
    /\ Len(call.values) = 2
    /\ assignment[2] = {}
    /\ \E j \in CandidateIndices :
        /\ call.candidates[j] \in assignment[1]
        /\ IsFinite(RowOf(2)[j])
        /\ RowOf(2)[j] >= cfg.min_score
        /\ RowOf(2)[j] > RowOf(1)[j]

\* The mapper and the call of the conflict resolution example: scores
\* [1, 1] for v0 and [1, 0] for v1 under '1:1'.
C6_Scenario ==
    /\ cfg.cardinality = OneToOne
    /\ cfg.score_function = [p \in ValueNames \X CandidateNames |->
                                IF p = <<"v1", "c1">> THEN 0 ELSE 1]
    /\ cfg.overrides = [default |-> NoOverrides, specific |-> NoOverrides]
    /\ cfg.filter_functions = <<>>
    /\ cfg.heuristics = <<>>
    /\ cfg.min_score <= 1
    /\ call.op = "apply"
    /\ call.values = <<"v0", "v1">>
    /\ call.candidates = <<"c0", "c1">>
    /\ call.override_function = NoOverrides
    /\ pc = "done"

C7_OnUnmapped ==
    (pc = "done" /\ call.op = "apply") =>
        LET matched == idx > Len(call.values)
            unmapped == \E i \in ValueIndices : assignment[i] = {}
        IN /\ error = "UnmappedValuesError" <=>
                  (cfg.on_unmapped = "raise" /\ matched /\ unmapped)
           /\ (cfg.on_unmapped \in {"warn", "ignore"} /\ matched) => error = None
           /\ warned <=> (cfg.on_unmapped = "warn" /\ matched /\ unmapped)

\* C7 witness: a partial assignment was returned with a warning.
C7_Witness ==
    /\ Returned
    /\ call.op = "apply"
    /\ cfg.on_unmapped = "warn"
    /\ warned
    /\ \E i, k \in ValueIndices : assignment[i] = {} /\ assignment[k] # {}

\* The score the unmodified score function gives the pair.
BaseScore(i, j) ==
    IF cfg.disabled THEN NegInf
    ELSE cfg.score_function[<<ValueAt(i), call.candidates[j]>>]

\* Candidates of the value that no filter function refuses.
KeptByFilters(i) ==
    {c \in Range(call.candidates) :
        \A k \in DOMAIN cfg.filter_functions : c \in cfg.filter_functions[k].keep[ValueAt(i)]}

\* Cells whose score is left to the score function and its heuristics.
Unfixed(i, j) ==
    /\ ApplicableOverride(i) = None
    /\ ~(cfg.disabled /\ ValueAt(i) \in Range(call.candidates))
    /\ call.candidates[j] \in KeptByFilters(i)

\* The candidates a short-circuiting function returns for the value.
ShortCircuited(i) ==
    LET hits == {k \in DOMAIN cfg.heuristics :
                    /\ cfg.heuristics[k].kind = "short_circuit"
                    /\ cfg.heuristics[k].keep[ValueAt(i)] \cap KeptByFilters(i) # {}}
    IN IF hits = {} THEN {}
       ELSE LET first == CHOOSE k \in hits : \A m \in hits : k <= m
            IN cfg.heuristics[first].keep[ValueAt(i)] \cap KeptByFilters(i)

\* C8 as stated: with heuristics configured, every cell left to the score
\* function ends at or above its base score; no heuristic, alias or
\* short-circuit, lowers a cell.
C8_Original ==
    (HasScores /\ cfg.heuristics # <<>>) =>
        \A i \in ValueIndices, j \in CandidateIndices :
            Unfixed(i, j) => RowOf(i)[j] >= BaseScore(i, j)

\* C8 amended: with heuristics configured, every cell left to the score
\* function ends at or above its base score unless a short-circuit returned
\* candidates for the value; then the returned candidates are +infinity and
\* the value's other candidates are -infinity, below their base score.
C8_BestOf ==
    (HasScores /\ cfg.heuristics # <<>>) =>
        \A i \in ValueIndices, j \in CandidateIndices :
            Unfixed(i, j) =>
                IF ShortCircuited(i) = {}
                THEN /\ RowOf(i)[j] >= BaseScore(i, j)
                     /\ IsFinite(BaseScore(i, j)) => IsFinite(RowOf(i)[j])
                ELSE RowOf(i)[j] = IF call.candidates[j] \in ShortCircuited(i)
                                   THEN PosInf ELSE NegInf

\* C8 witness: an alias raised one cell of a row above its base score and
\* left another cell, whose alias score is lower, at its base score.
C8_Witness ==
    /\ pc = "scored"
    /\ \E i \in ValueIndices, j, k \in CandidateIndices :
        /\ Unfixed(i, j) /\ Unfixed(i, k)
        /\ ShortCircuited(i) = {}
        /\ RowOf(i)[j] > BaseScore(i, j)
        /\ RowOf(i)[k] = BaseScore(i, k)
        /\ BaseScore(i, k) > 0

\* C9: under every cardinality no cell below min_score is part of a returned
\* assignment, and a finite cell equal to min_score is matchable: it is
\* matched when nothing else competes for its value or its candidate.
C9_Threshold ==
    Returned =>
        \A i \in ValueIndices, j \in CandidateIndices :
            /\ call.candidates[j] \in assignment[i] => RowOf(i)[j] >= cfg.min_score
            /\ ( /\ RowOf(i)[j] = cfg.min_score
                 /\ \A m \in CandidateIndices : m # j => RowOf(i)[m] < cfg.min_score
                 /\ call.cardinality \in {OneToOne, OneToMany} =>
                        \A k \in ValueIndices : k # i => RowOf(k)[j] < cfg.min_score )
               => call.candidates[j] \in assignment[i]

\* C9 witness: a cell equal to min_score is matched next to an unmatched
\* cell of the same value just below it.
C9_Witness ==
    /\ Returned
    /\ \E i \in ValueIndices, j, m \in CandidateIndices :
        /\ RowOf(i)[j] = cfg.min_score
        /\ call.candidates[j] \in assignment[i]
        /\ RowOf(i)[m] = cfg.min_score - 1
        /\ call.candidates[m] \notin assignment[i]

\* C10: under OneToMany no candidate of a returned assignment is matched to
\* two different values.
C10_OneToMany ==
    (Returned /\ call.cardinality = OneToMany) =>
        \A i, k \in ValueIndices : i # k => assignment[i] \cap assignment[k] = {}

\* C10 witness: the first value owns several candidates, one of which the
\* second value, left unmatched, scores at or above min_score.
C10_Witness ==
    /\ Returned
    /\ call.cardinality = OneToMany
    /\ Len(call.values) = 2
    /\ Cardinality(assignment[1]) >= 2
    /\ assignment[2] = {}
    /\ \E j \in CandidateIndices : RowOf(2)[j] >= cfg.min_score

\* C11: under ManyToOne every matched value is assigned exactly one
\* candidate, and a value is never left unmatched because another value
\* already matched its candidate: an unmatched value has no cell at or above
\* min_score. The same candidate may be assigned to several values.
C11_ManyToOne ==
    (Returned /\ call.cardinality = ManyToOne) =>
        \A i \in ValueIndices :
            /\ Cardinality(assignment[i]) <= 1
            /\ assignment[i] = {} =>
                   \A j \in CandidateIndices : RowOf(i)[j] < cfg.min_score

\* C11 witness: both values are matched to the same candidate.
C11_Witness ==
    /\ Returned
    /\ call.cardinality = ManyToOne
    /\ Len(call.values) = 2
    /\ assignment[1] # {}
    /\ assignment[2] = assignment[1]

\* C12: under ManyToMany the returned assignment is exactly the set of
\* (value, candidate) cells whose score is at or above min_score: no such
\* cell is dropped for exclusivity, no cell below the threshold is included,
\* and no AmbiguousScoreError is raised for ties.
C12_ManyToMany ==
    (pc = "done" /\ call.cardinality = ManyToMany) =>
        /\ error # "AmbiguousScoreError"
        /\ Returned =>
              \A i \in ValueIndices, j \in CandidateIndices :
                  call.candidates[j] \in assignment[i] <=> RowOf(i)[j] >= cfg.min_score

\* C12 witness: a value is matched to two candidates of equal score, one of
\* which the other value is matched to as well, while a cell below the
\* threshold is left out.
C12_Witness ==
    /\ Returned
    /\ call.cardinality = ManyToMany
    /\ \E i, k \in ValueIndices, j, m \in CandidateIndices :
        /\ i # k /\ j # m
        /\ RowOf(i)[j] = RowOf(i)[m]
        /\ {call.candidates[j], call.candidates[m]} \subseteq assignment[i]
        /\ call.candidates[j] \in assignment[k]
        /\ RowOf(k)[m] < cfg.min_score
        /\ call.candidates[m] \notin assignment[k]

\* C13: the scoring stages form a hierarchy that a later stage never
\* reverses. Every cell of an overridden value is as the override fixed it
\* (+infinity for the named candidate, -infinity otherwise) whatever the
\* filters, the score function and the heuristics say; a cell refused by a
\* filter is -infinity whatever the score function and the heuristics say;
\* scores of the score function and its heuristics are found only in cells
\* that neither an override nor a filter fixed.
C13_Hierarchy ==
    HasScores =>
        \A i \in ValueIndices, j \in CandidateIndices :
            /\ ApplicableOverride(i) # None =>
                   RowOf(i)[j] = IF call.candidates[j] = ApplicableOverride(i)
                                 THEN PosInf ELSE NegInf
            /\ (ApplicableOverride(i) = None
                    /\ call.candidates[j] \notin KeptByFilters(i)) =>
                   RowOf(i)[j] = NegInf
            /\ IsFinite(RowOf(i)[j]) => Unfixed(i, j)

\* C13 witness: one value has an override that names a candidate its filters
\* refuse and a short-circuit would not return; a cell of another value is
\* refused by a filter while an alias scores it at or above min_score.
C13_Witness ==
    /\ pc = "scored"
    /\ \E i, k \in ValueIndices, j \in CandidateIndices :
        /\ ApplicableOverride(i) \in Range(call.candidates)
        /\ ApplicableOverride(i) \notin KeptByFilters(i)
        /\ \E h \in DOMAIN cfg.heuristics :
            /\ cfg.heuristics[h].kind = "short_circuit"
            /\ cfg.heuristics[h].keep[ValueAt(i)] # {}
            /\ ApplicableOverride(i) \notin cfg.heuristics[h].keep[ValueAt(i)]
        /\ ApplicableOverride(k) = None
        /\ call.candidates[j] \notin KeptByFilters(k)
        /\ \E h \in DOMAIN cfg.heuristics :
            /\ cfg.heuristics[h].kind = "alias"
            /\ cfg.score_function[<<cfg.heuristics[h].value_map[ValueAt(k)],
                                    cfg.heuristics[h].cand_map[call.candidates[j]]>>]
                   >= cfg.min_score
        /\ RowOf(k)[j] = NegInf

\* The row the value at index i has when no filter function is configured.
UnfilteredRow(i) ==
    IF cfg.disabled /\ ValueAt(i) \in Range(call.candidates)
    THEN [j \in CandidateIndices |->
             IF call.candidates[j] = ValueAt(i) THEN PosInf ELSE NegInf]
    ELSE HeuristicScore(ValueAt(i), call.candidates)

\* The candidates a short-circuit returns for the value when no filter
\* function is configured.
UnfilteredShortCircuit(i) == short_circuit(1, ValueAt(i), call.candidates)

\* A filter refuses the candidate for the value, which has no override.
Refused(i, j) ==
    ApplicableOverride(i) = None /\ call.candidates[j] \notin KeptByFilters(i)

Computed(t) == thread[t].pc \in {"restore", "done"}

\* What the call of thread t returns when no other call is made.
ScoresAlone(t) ==
    compute_scores(<<"v0", "v1">>, <<"c0", "c1">>,
                   thread[t].context, thread[t].override_function)

C17_Scenario ==
    /\ pc = "done"
    /\ call.op = "apply"
    /\ call.cardinality = OneToOne
    /\ call.values = <<"v0", "v1">>
    /\ call.candidates = <<"c0", "c1">>
    /\ ApplicableOverride(1) = "c0"
    /\ ApplicableOverride(2) = None
    /\ cfg.filter_functions = <<>>
    /\ cfg.heuristics = <<>>

\* The result of the example: {dog: '4', cat: '0'} when the score of cat for
\* '0' is at or above min_score, {dog: '4'} otherwise.
C17_Result ==
    assignment = IF RowOf(2)[2] >= cfg.min_score
                 THEN <<{"c0"}, {"c1"}>> ELSE <<{"c0"}, {}>>

\* C17 as stated: dog is assigned '4' with score +infinity, candidate '4' is
\* forced to -infinity for cat, and the result is {dog: '4', cat: '0'} when
\* the score of cat for '0' is at or above min_score, {dog: '4'} otherwise.
C17_Original ==
    C17_Scenario =>
        /\ RowOf(1)[1] = PosInf
        /\ RowOf(2)[1] = NegInf
        /\ C17_Result

\* C17 amended: dog is assigned '4' with score +infinity and '0' is
\* -infinity for dog; the score of cat for '4' is left as the score function
\* computed it, but '4' is owned by dog, so that cat is not matched to it;
\* the result is {dog: '4', cat: '0'} when the score of cat for '0' is at or
\* above min_score, {dog: '4'} otherwise.
C17_Example ==
    C17_Scenario =>
        /\ RowOf(1) = <<PosInf, NegInf>>
        /\ RowOf(2)[1] = BaseScore(2, 1)
        /\ "c0" \notin assignment[2]
        /\ C17_Result

\* C17 witness: cat scores '4' above '0' and above min_score, and is matched
\* to '0'.
C17_Witness ==
    /\ C17_Scenario
    /\ RowOf(2)[1] > RowOf(2)[2]
    /\ RowOf(2)[2] >= cfg.min_score
    /\ assignment = <<{"c0"}, {"c1"}>>

\* The value at index i is resolved by none of its overrides, the filters
\* and the short-circuits: candidates are left for the score function.
Unresolved(i) ==
    /\ ApplicableOverride(i) = None
    /\ KeptByFilters(i) # {}
    /\ ShortCircuited(i) = {}

\* The value at index i is a candidate itself.
IsCandidate(i) == ValueAt(i) \in Range(call.candidates)

\* apply has ended for a Mapper with score_function='disabled'.
OverrideOnlyApplied == pc = "done" /\ call.op = "apply" /\ cfg.disabled

AmbiguousAt(i) ==
    /\ call.cardinality \in {OneToOne, ManyToOne}
    /\ \E j1, j2 \in StillAvailable(i) :
        /\ j1 # j2
        /\ RowOf(i)[j1] = RowOf(i)[j2]
        /\ \A j \in StillAvailable(i) : RowOf(i)[j] <= RowOf(i)[j1]

\* C19: an AmbiguousScoreError of the matcher always reaches the caller of
\* apply, whatever on_unmapped is: when the matcher raises for a value, apply
\* ends with AmbiguousScoreError, emits no warning instead, and leaves the
\* value and those after it unresolved rather than unmatched in a result.
C19_AmbiguousReachesCaller ==
    (pc = "done" /\ call.op = "apply" /\ error # "ScoringDisabledError") =>
        \A i \in ValueIndices :
            (AmbiguousAt(i) /\ \A k \in 1..(i - 1) : ~AmbiguousAt(k)) =>
                /\ error = "AmbiguousScoreError"
                /\ ~warned
                /\ idx = i
                /\ \A k \in ValueIndices : k >= i => assignment[k] = {}

\* C19 witness: on_unmapped is 'warn' or 'ignore', the first value was
\* matched, and apply raised AmbiguousScoreError for the second.
C19_Witness ==
    /\ pc = "done"
    /\ call.op = "apply"
    /\ cfg.on_unmapped \in {"warn", "ignore"}
    /\ error = "AmbiguousScoreError"
    /\ Len(call.values) = 2
    /\ assignment[1] # {}
    /\ AmbiguousAt(2)

\* The applicable override of the value at index i names something that is
\* not in the candidate list, such as the dummy "_".
BlockedByOverride(i) ==
    ApplicableOverride(i) # None /\ ApplicableOverride(i) \notin Range(call.candidates)

\* C20: if the override of a value names a candidate that is not in the
\* candidate list, every candidate of the value scores -infinity, the value
\* is matched neither by its scores nor by its identity, and apply reports
\* it as unmatched: with on_unmapped='raise' it raises UnmappedValuesError.
C20_PreventMapping ==
    HasScores =>
        \A i \in ValueIndices :
            BlockedByOverride(i) =>
                /\ \A j \in CandidateIndices : RowOf(i)[j] = NegInf
                /\ pc \in {"matching", "done"} => assignment[i] = {}
                /\ (pc = "done" /\ call.op = "apply" /\ error # "AmbiguousScoreError") =>
                       /\ i \in unmapped_values
                       /\ cfg.on_unmapped = "raise" => error = "UnmappedValuesError"

\* C20 witness: a value that is a candidate itself has the dummy override;
\* apply left it unmatched and raised UnmappedValuesError.
C20_Witness ==
    /\ pc = "done"
    /\ call.op = "apply"
    /\ error = "UnmappedValuesError"
    /\ \E i \in ValueIndices :
        /\ ApplicableOverride(i) = Dummy
        /\ IsCandidate(i)
        /\ assignment[i] = {}

\* What to_directional_mapping does with the scores under the configured
\* cardinality and min_score, value by value: the candidates the value at
\* index i can have, given the matches of the values before it.
AvailableTo(i) ==
    {j \in CandidateIndices :
        /\ RowOf(i)[j] >= cfg.min_score
        /\ cfg.cardinality \in {OneToOne, OneToMany} =>
              call.candidates[j] \notin OwnedBefore(i)}

BestOf(i) == {j \in AvailableTo(i) : \A m \in AvailableTo(i) : RowOf(i)[m] <= RowOf(i)[j]}

SingleCandidate == cfg.cardinality \in {OneToOne, ManyToOne}

MatchOf(i) ==
    {call.candidates[j] : j \in IF SingleCandidate THEN BestOf(i) ELSE AvailableTo(i)}

MatcherRaises == SingleCandidate /\ \E i \in ValueIndices : Cardinality(BestOf(i)) > 1

SomeUnmatched == \E i \in ValueIndices : assignment[i] = {}

\* C21: apply is the composition of its two steps. When apply or
\* to_directional_mapping has ended, the scores are those of compute_scores
\* for the arguments, and the matches (or the AmbiguousScoreError) are those
\* of the matching procedure under the configured cardinality and min_score;
\* apply adds the on_unmapped policy and nothing else.
C21_Composition ==
    (pc = "done" /\ call.op \in {"apply", "to_directional_mapping"}
            /\ error # "ScoringDisabledError") =>
        /\ scores = compute_scores(call.values, call.candidates, call.context,
                                   call.override_function)
        /\ error = "AmbiguousScoreError" <=> MatcherRaises
        /\ ~MatcherRaises =>
              /\ \A i \in ValueIndices : assignment[i] = MatchOf(i)
              /\ error = IF call.op = "apply" /\ cfg.on_unmapped = "raise" /\ SomeUnmatched
                         THEN "UnmappedValuesError" ELSE None
              /\ warned <=> (call.op = "apply" /\ cfg.on_unmapped = "warn" /\ SomeUnmatched)

\* C21 witness: apply returned with a warning, matching one value and
\* leaving the other, under a cardinality other than '1:1'.
C21_Witness ==
    /\ Returned
    /\ call.op = "apply"
    /\ cfg.cardinality # OneToOne
    /\ warned
    /\ \E i, k \in ValueIndices : assignment[i] # {} /\ assignment[k] = {}

ForcedAvailable(i) == {j \in StillAvailable(i) : RowOf(i)[j] = PosInf}

ForcedCells(i) == {j \in CandidateIndices : RowOf(i)[j] = PosInf}

SingleCandidateCall == call.cardinality \in {OneToOne, ManyToOne}

\* C24 as stated: for a value whose row has exactly one +infinity cell the
\* Matcher selects that candidate without an ambiguity error, whatever finite
\* scores the row also holds; two or more available +infinity cells raise
\* AmbiguousScoreError under a single-candidate cardinality.
C24_Original ==
    [][(Resolving /\ SingleCandidateCall) =>
            /\ Cardinality(ForcedCells(idx)) = 1 =>
                    /\ error' = None
                    /\ assignment'[idx] = {call.candidates[j] : j \in ForcedCells(idx)}
            /\ Cardinality(ForcedAvailable(idx)) >= 2 => RaisesAmbiguous]_vars

\* C24 amended: under a single-candidate cardinality, a value with exactly one
\* still-available +infinity cell is matched to that candidate without an
\* ambiguity error, whatever finite scores or finite ties its row also holds;
\* a value with two or more still-available +infinity cells raises
\* AmbiguousScoreError. A +infinity cell whose candidate an earlier value
\* owns under OneToOne does not count: the value is then resolved among its
\* finite cells, where a tie is ambiguous.
C24_InfiniteScores ==
    [][(Resolving /\ SingleCandidateCall) =>
            /\ Cardinality(ForcedAvailable(idx)) = 1 =>
                    /\ error' = None
                    /\ assignment'[idx] =
                           {call.candidates[j] : j \in ForcedAvailable(idx)}
            /\ Cardinality(ForcedAvailable(idx)) >= 2 => RaisesAmbiguous]_vars

\* C24 witness: a value is matched to its only +infinity cell although two
\* other cells of its row tie at a finite score at or above min_score.
C24_Witness ==
    /\ Returned
    /\ call.op = "to_directional_mapping"
    /\ SingleCandidateCall
    /\ \E i \in ValueIndices, j, m, n \in CandidateIndices :
        /\ ForcedAvailable(i) = {j}
        /\ assignment[i] = {call.candidates[j]}
        /\ m # n
        /\ IsFinite(RowOf(i)[m])
        /\ RowOf(i)[m] = RowOf(i)[n]
        /\ RowOf(i)[m] >= cfg.min_score

\* The still-available candidates with the highest score of the value at
\* index i, and the earliest of them in the candidates list.
HighestAvailable(i) ==
    {j \in StillAvailable(i) : \A m \in StillAvailable(i) : RowOf(i)[m] <= RowOf(i)[j]}

EarliestHighest(i) ==
    {j \in HighestAvailable(i) : \A m \in HighestAvailable(i) : j <= m}

LeftToScoring(i) ==
    /\ ApplicableOverride(i) = None
    /\ ~(cfg.disabled /\ ValueAt(i) \in Range(call.candidates))

\* The candidates that the first short-circuiting function of the list hs
\* with a non-empty result returns for the value.
RECURSIVE ShortCircuitWith(_, _, _, _)
ShortCircuitWith(hs, k, value, kept) ==
    IF k > Len(hs) THEN {}
    ELSE LET res == IF hs[k].kind = "short_circuit"
                    THEN hs[k].keep[value] \cap kept
                    ELSE {}
         IN IF res # {} THEN res ELSE ShortCircuitWith(hs, k + 1, value, kept)

\* The best of the base scores and of the scores of every alias of the list
\* hs, applied in the order of the list.
RECURSIVE AliasScoresWith(_, _, _, _, _)
AliasScoresWith(hs, k, h_value, h_candidates, best) ==
    IF k > Len(hs) THEN best
    ELSE IF hs[k].kind # "alias"
    THEN AliasScoresWith(hs, k + 1, h_value, h_candidates, best)
    ELSE LET res == apply_alias(hs[k], h_value, h_candidates)
             heuristic_scores == score_function(res.value, res.candidates)
             new_best == [j \in DOMAIN best |-> Max2(best[j], heuristic_scores[j])]
         IN IF hs[k].mutate
            THEN AliasScoresWith(hs, k + 1, res.value, res.candidates, new_best)
            ELSE AliasScoresWith(hs, k + 1, h_value, h_candidates, new_best)

\* The row of the value at index i, if hs were the configured heuristics.
RowWith(hs, i) ==
    LET kept == KeptByFilters(i)
        kept_seq == SelectSeq(call.candidates, LAMBDA c : c \in kept)
        sc == ShortCircuitWith(hs, 1, ValueAt(i), kept)
        computed ==
            IF sc # {}
            THEN [j \in 1..Len(kept_seq) |-> IF kept_seq[j] \in sc THEN PosInf ELSE NegInf]
            ELSE AliasScoresWith(hs, 1, ValueAt(i), kept_seq,
                                 score_function(ValueAt(i), kept_seq))
    IN [j \in CandidateIndices |->
           IF call.candidates[j] \in kept
           THEN computed[IndexOf(kept_seq, call.candidates[j])]
           ELSE NegInf]

\* The configured heuristics without the short-circuiting functions.
AliasesOnly == SelectSeq(cfg.heuristics, LAMBDA h : h.kind = "alias")

\* C26: when a short-circuiting function returns candidates for a value,
\* those candidates get +infinity and all other candidates of that value get
\* -infinity; the rows of the other values, and the row of a value for which
\* no candidate is returned, are the base/alias scores, as if no
\* short-circuiting function were configured.
C26_ShortCircuit ==
    HasScores =>
        \A i \in ValueIndices :
            LeftToScoring(i) =>
                IF ShortCircuited(i) # {}
                THEN \A j \in CandidateIndices :
                        /\ call.candidates[j] \in ShortCircuited(i) => RowOf(i)[j] = PosInf
                        /\ call.candidates[j] \notin ShortCircuited(i) => RowOf(i)[j] = NegInf
                ELSE RowOf(i) = RowWith(AliasesOnly, i)

\* C26 witness: a short-circuit fixed the row of one value, also lowering a
\* cell with a positive base score to -infinity, while an alias raised a cell
\* of the other value, for which nothing was returned.
C26_Witness ==
    /\ pc = "scored"
    /\ \E i, k \in ValueIndices, j, m, n \in CandidateIndices :
        /\ LeftToScoring(i) /\ LeftToScoring(k)
        /\ ShortCircuited(i) = {call.candidates[j]}
        /\ RowOf(i)[j] = PosInf
        /\ RowOf(i)[m] = NegInf
        /\ BaseScore(i, m) > 0
        /\ ShortCircuited(k) = {}
        /\ IsFinite(RowOf(k)[n])
        /\ RowOf(k)[n] > BaseScore(k, n)

Reverse(seq) == [k \in 1..Len(seq) |-> seq[Len(seq) + 1 - k]]

\* The score of the pair under each alias on its own, and the zero-heuristic
\* score of the pair.
VariantScores(i, j) ==
    {BaseScore(i, j)} \cup
        {score_function(h.value_map[ValueAt(i)], <<h.cand_map[call.candidates[j]]>>)[1] :
            h \in {cfg.heuristics[k] : k \in {n \in DOMAIN cfg.heuristics :
                                                  cfg.heuristics[n].kind = "alias"}}}

MaxOf(S) == CHOOSE s \in S : \A t \in S : t <= s

\* No alias keeps its changes for the heuristics that follow it.
NoMutate == \A k \in DOMAIN cfg.heuristics : ~cfg.heuristics[k].mutate

\* The short-circuiting functions that return candidates for the value at
\* index i agree on the candidates.
ShortCircuitsAgree(i) ==
    \A k \in DOMAIN cfg.heuristics :
        LET res == cfg.heuristics[k].keep[ValueAt(i)] \cap KeptByFilters(i)
        IN (cfg.heuristics[k].kind = "short_circuit" /\ res # {}) => res = ShortCircuited(i)

\* C27 as stated: the matrix does not depend on the order of the configured
\* heuristics, and each cell left to scoring is the maximum of the
\* zero-heuristic score and the score of every heuristic variant.
C27_Original ==
    HasScores =>
        \A i \in ValueIndices :
            LeftToScoring(i) =>
                /\ RowOf(i) = RowWith(Reverse(cfg.heuristics), i)
                /\ \A j \in CandidateIndices :
                       call.candidates[j] \in KeptByFilters(i) =>
                           RowOf(i)[j] = IF call.candidates[j] \in ShortCircuited(i)
                                         THEN PosInf
                                         ELSE MaxOf(VariantScores(i, j))

\* C27 amended: heuristics are applied in the order in which they are given.
\* The matrix is the same for the reversed list if no alias has mutate set
\* and the short-circuiting functions that return candidates for a value
\* return the same ones; with mutate, or with short-circuits that disagree
\* (the first that returns candidates decides), the order matters. For a
\* value without short-circuit result and without mutate, each cell is the
\* maximum of the zero-heuristic score and the score of every alias; for a
\* value with a short-circuit result the cells are +infinity and -infinity.
C27_HeuristicOrder ==
    HasScores =>
        \A i \in ValueIndices :
            LeftToScoring(i) =>
                /\ RowOf(i) = RowWith(cfg.heuristics, i)
                /\ (NoMutate /\ ShortCircuitsAgree(i)) =>
                       RowOf(i) = RowWith(Reverse(cfg.heuristics), i)
                /\ \A j \in CandidateIndices :
                       call.candidates[j] \in KeptByFilters(i) =>
                           /\ ShortCircuited(i) # {} => ~IsFinite(RowOf(i)[j])
                           /\ (ShortCircuited(i) = {} /\ NoMutate) =>
                                  RowOf(i)[j] = MaxOf(VariantScores(i, j))

\* C27 witness: an alias and a short-circuiting function are configured; the
\* alias raised a cell of a value for which the short-circuit returns nothing,
\* and the short-circuit fixed the row of the other value.
C27_Witness ==
    /\ pc = "scored"
    /\ Len(cfg.heuristics) = 2
    /\ NoMutate
    /\ \E i, k \in ValueIndices, j \in CandidateIndices :
        /\ LeftToScoring(i) /\ LeftToScoring(k)
        /\ ShortCircuited(i) # {}
        /\ ShortCircuited(k) = {}
        /\ RowOf(k)[j] > BaseScore(k, j)
        /\ RowOf(k) = RowWith(Reverse(cfg.heuristics), k)

\* A step of the call in progress, as opposed to the start of a new call.
SameCall ==
    \/ pc = "matching"
    \/ pc = "scored" /\ call'.op = "to_directional_mapping"

\* C28: whatever calls were made before and whether they returned or raised,
\* no step changes the Mapper's configuration, a call in progress leaves the
\* caller's values, candidates and scores as they were given, every call
\* starts matching with no candidate taken and no value matched, and the
\* scores held are those of compute_scores for the arguments of the call.
C28_Stateless ==
    /\ [][/\ cfg' = cfg
          /\ SameCall => /\ call'.values = call.values
                         /\ call'.candidates = call.candidates
                         /\ call'.context = call.context
                         /\ call'.override_function = call.override_function
                         /\ scores' = scores]_vars
    /\ []((pc = "matching" /\ idx = 1) =>
              /\ consumed = {}
              /\ \A i \in ValueIndices : assignment[i] = {}
              /\ error = None
              /\ ~warned)
    /\ []((pc # "idle" /\ error # "ScoringDisabledError") =>
              scores = compute_scores(call.values, call.candidates, call.context,
                                      call.override_function))

\* C28 witness: to_directional_mapping raised AmbiguousScoreError on the scores
\* of an earlier compute_scores call with a runtime override, under a Mapper
\* with static overrides, a filter and a heuristic.
C28_Witness ==
    /\ pc = "done"
    /\ call.op = "to_directional_mapping"
    /\ error = "AmbiguousScoreError"
    /\ call.override_function # NoOverrides
    /\ cfg.overrides.default # NoOverrides
    /\ cfg.filter_functions # <<>>
    /\ cfg.heuristics # <<>>

\* A matching is in progress or has ended, with or without an error.
Matched ==
    /\ pc \in {"matching", "done"}
    /\ Len(assignment) = Len(call.values)
    /\ Len(scores) = Len(call.values)

\* C29: under every cardinality, every (value, candidate) pair of an
\* assignment has a score that is +infinity or finite and at or above
\* min_score; a cell that is -infinity or below min_score is never assigned.
C29_AssignedScores ==
    Matched =>
        \A i \in ValueIndices, j \in CandidateIndices :
            /\ call.candidates[j] \in assignment[i] =>
                   \/ RowOf(i)[j] = PosInf
                   \/ IsFinite(RowOf(i)[j]) /\ RowOf(i)[j] >= cfg.min_score
            /\ (RowOf(i)[j] = NegInf \/ RowOf(i)[j] < cfg.min_score) =>
                   call.candidates[j] \notin assignment[i]

\* C29 witness: a returned assignment holds a +infinity cell and a finite
\* cell equal to min_score, and leaves out a -infinity cell and a finite cell
\* below min_score.
C29_Witness ==
    /\ Returned
    /\ call.op = "to_directional_mapping"
    /\ \E i, k \in ValueIndices, j, m, n, q \in CandidateIndices :
        /\ RowOf(i)[j] = PosInf /\ call.candidates[j] \in assignment[i]
        /\ RowOf(i)[m] = cfg.min_score /\ call.candidates[m] \in assignment[i]
        /\ RowOf(i)[n] = NegInf /\ call.candidates[n] \notin assignment[i]
        /\ IsFinite(RowOf(k)[q]) /\ RowOf(k)[q] < cfg.min_score
        /\ call.candidates[q] \notin assignment[k]

\* The positions of the values that are matched to a candidate.
MatchedValues == {i \in DOMAIN assignment : assignment[i] # {}}

====
